---- MODULE Spec2Model ----
(***************************************************************************)
(* Intent lifecycle engine of the AI agent wallet: the AgentRegistry,      *)
(* PolicyEngine and CrossChainExecutor contracts as one state machine.     *)
(*                                                                         *)
(* Amounts are counted in units of 0.1 ether (10^17 wei), so the literals  *)
(* of emitIntent read 10 (1 ether a day) and 1 (0.1 ether a transaction).  *)
(* Addresses and 32-byte identifiers are small naturals; 0 is address(0)   *)
(* and bytes32(0).  A call that reverts leaves the storage of every        *)
(* contract as it was before the call (EVM revert): each handler is an     *)
(* operator that returns the storage it reached together with its outcome, *)
(* and Commit keeps that storage only when the call did not revert.        *)
(***************************************************************************)
EXTENDS Integers, Sequences, FiniteSets, Bags, TLC

\* ---------------------------------------------------------------- bounds
MaxTicks == 1
MaxNonce == 1
MaxProcessed == 1
MaxHeld == 3
MaxUpdates == 20
MaxWindowTicks == 3
MaxViolations == 5

\* ------------------------------------------------------ program constants
DAY == 86400
HOUR == 3600
COOLDOWN_PERIOD == 3600
SUSPICIOUS_ACTIVITY_THRESHOLD == 10
StartTime == 1700000000

\* bytes32 agent and intent identifiers, 0 being bytes32(0); externally owned
\* accounts, 0 being address(0); amounts in units of 0.1 ether.
AgentIds == {0, 1}
IntentIds == {0, 1}
Accounts == {1, 2}
Addresses == {0} \cup Accounts
Values == {0, 1, 2}
Deployer == 1
Deltas == {HOUR, DAY}
Nonces == 0 .. MaxNonce

\* The literals emitIntent passes to checkPolicy, in units of 0.1 ether.
EMIT_MAX_SPEND_PER_DAY == 10
EMIT_MAX_TX_PER_HOUR == 10
EMIT_MAX_VALUE_PER_TX == 1

\* Reentrancy guard
_NOT_ENTERED == 1
_ENTERED == 2

\* enum Status
Pending == 0
Validated == 1
Submitted == 2
Executed == 3
Disputed == 4
Failed == 5

SEPOLIA == 11155111
TIMELOCK_DURATION == 60
\* 0.1 ether
MIN_STAKE == 1
INITIAL_REPUTATION == 100
MAX_REPUTATION == 200
MIN_REPUTATION == 10
\* The address the AgentRegistry contract is deployed at.
REGISTRY_ADDRESS == 90
\* What ecrecover yields for a signature made over another digest: an address
\* that is nobody's.
JunkAddress == 99

\* A policy whose hourly cap one approved check exhausts.
StrictPolicy ==
    [maxSpendPerDay |-> 1, maxTxPerHour |-> 1, maxValuePerTx |-> 2,
     whitelistedAddresses |-> <<1>>]

\* The limits a caller of checkPolicy passes (AgentRegistry.PolicyConfig).
Policies ==
    {[maxSpendPerDay |-> 2, maxTxPerHour |-> 2, maxValuePerTx |-> 1,
      whitelistedAddresses |-> <<>>],
     StrictPolicy}

VARIABLES
    now,             \* block.timestamp
    ticks,           \* number of time steps taken (bounds the run)
    rollingWindows,  \* PolicyEngine.rollingWindows
    circuitBreaker,  \* PolicyEngine.circuitBreaker
    paused,          \* PolicyEngine.paused
    agentPaused,     \* PolicyEngine.agentPaused
    policyChecked,   \* the PolicyChecked events logged with approved = true,
                     \* per agent: the time and the value of each
    agents,          \* AgentRegistry.agents
    policies,        \* AgentRegistry.policies
    walletToAgentId, \* AgentRegistry.walletToAgentId
    intents,         \* CrossChainExecutor.intents
    agentNonces,     \* CrossChainExecutor.agentNonces
    _status,         \* CrossChainExecutor._status
    emitted,         \* the IntentEmitted events logged, per agent: their nonces
    agentRegistry,   \* CrossChainExecutor.agentRegistry
    authorizedRelayers, \* CrossChainExecutor.authorizedRelayers
    relayerInfo,     \* CrossChainExecutor.relayerInfo
    activeRelayers,  \* CrossChainExecutor.activeRelayers
    balance,         \* the ether the CrossChainExecutor holds
    sent,            \* per account: the ether it has paid to the executor,
                     \* less the ether the executor has paid back to it
    auditEntries,    \* AuditLog: the entries logged, in order
    commitmentExists, \* AuditLog: the commitment hashes logged
    dbAgents,        \* the backend's agents table, by agent_id
    dbIntents,       \* the backend's intents table: its rows
    inflight,        \* the REST requests received and not yet answered
    answered,        \* the answers the REST routes have given
    last             \* the last call made and its outcome

peVars == <<rollingWindows, circuitBreaker, paused, agentPaused, policyChecked>>
regVars == <<agents, policies, walletToAgentId>>
exVars == <<intents, agentNonces, _status, emitted, agentRegistry,
            authorizedRelayers, relayerInfo, activeRelayers, balance, sent>>
auVars == <<auditEntries, commitmentExists>>
dbVars == <<dbAgents, dbIntents, inflight, answered>>
stateVars == <<now, ticks, peVars, regVars, exVars, auVars, dbVars>>
vars == <<stateVars, last>>

\* ------------------------------------------------------------ call results
Ok(st) == [ok |-> TRUE, err |-> "", st |-> st]
Revert(e, st) == [ok |-> FALSE, err |-> e, st |-> st]

\* A reverted call keeps none of the writes it made before the revert.
CommitNoRollback(pre, res) == res.st
Commit(pre, res) == IF res.ok THEN res.st ELSE pre

\* ------------------------------------------------------------ PolicyEngine
EmptyWindow ==
    [dailySpent |-> 0, dailyWindowStart |-> 0, hourlyTxCount |-> 0, hourlyWindowStart |-> 0]

PEInit ==
    [rollingWindows |-> [a \in AgentIds |-> EmptyWindow],
     circuitBreaker |-> [suspiciousActivityThreshold |-> SUSPICIOUS_ACTIVITY_THRESHOLD,
                         cooldownPeriod |-> COOLDOWN_PERIOD,
                         tripped |-> FALSE,
                         trippedAt |-> 0],
     paused |-> FALSE,
     agentPaused |-> [a \in AgentIds |-> FALSE],
     policyChecked |-> [a \in AgentIds |-> EmptyBag],
     emergencyAdmin |-> Deployer]

PE ==
    [rollingWindows |-> rollingWindows,
     circuitBreaker |-> circuitBreaker,
     paused |-> paused,
     agentPaused |-> agentPaused,
     policyChecked |-> policyChecked,
     emergencyAdmin |-> Deployer]

_checkCircuitBreaker(pe, t) ==
    IF ~pe.circuitBreaker.tripped
    THEN [pe EXCEPT !.circuitBreaker.tripped = TRUE, !.circuitBreaker.trippedAt = t]
    ELSE pe

isWhitelisted(wl, recipient) == \E i \in 1 .. Len(wl) : wl[i] = recipient

DailyReset(w, t) ==
    IF t >= w.dailyWindowStart + DAY
    THEN [w EXCEPT !.dailySpent = 0, !.dailyWindowStart = t]
    ELSE w

\* A variant of HourlyReset that restarts the window at every check.
HourlyResetAlways(w, t) == [w EXCEPT !.hourlyTxCount = 0, !.hourlyWindowStart = t]

HourlyResetLate(w, t) ==
    IF t > w.hourlyWindowStart + HOUR
    THEN [w EXCEPT !.hourlyTxCount = 0, !.hourlyWindowStart = t]
    ELSE w

HourlyReset(w, t) ==
    IF t >= w.hourlyWindowStart + HOUR
    THEN [w EXCEPT !.hourlyTxCount = 0, !.hourlyWindowStart = t]
    ELSE w

BreakerReset(pe, t) ==
    IF pe.circuitBreaker.tripped
    THEN [pe EXCEPT !.circuitBreaker.tripped = FALSE]
    ELSE pe

\* A variant of HourlyGate that lets one more check through.
HourlyGateLoose(hourlyTxCount, maxTxPerHour) == hourlyTxCount > maxTxPerHour

\* The hourly test of checkPolicy: the window's count has reached the cap.
HourlyGate(hourlyTxCount, maxTxPerHour) == hourlyTxCount >= maxTxPerHour

PerTxGateNone(value, maxValuePerTx) == FALSE
PerTxGate(value, maxValuePerTx) == value > maxValuePerTx

checkPolicy(pe, agentId, value, recipient, maxSpendPerDay, maxTxPerHour, maxValuePerTx, wl, t) ==
    IF pe.paused THEN Revert("SystemPaused", pe)
    ELSE IF pe.agentPaused[agentId] THEN Revert("AgentIsPaused", pe)
    ELSE IF pe.circuitBreaker.tripped
            /\ t < pe.circuitBreaker.trippedAt + pe.circuitBreaker.cooldownPeriod
    THEN Revert("CircuitBreakerActive", pe)
    ELSE
    LET pe1 == BreakerReset(pe, t)
        w1 == DailyReset(pe1.rollingWindows[agentId], t)
        w2 == HourlyReset(w1, t)
        w3 == [w2 EXCEPT !.dailySpent = @ + value, !.hourlyTxCount = @ + 1]
        pe2 == [pe1 EXCEPT !.rollingWindows[agentId] = w1]
        pe3 == [pe1 EXCEPT !.rollingWindows[agentId] = w2]
        pe4 == [pe1 EXCEPT !.rollingWindows[agentId] = w3,
                           !.policyChecked[agentId] =
                               @ (+) SetToBag({[at |-> t, value |-> value]})]
    IN  IF PerTxGate(value, maxValuePerTx)
        THEN Revert("PolicyViolation: Exceeds maxValuePerTx", pe1)
        ELSE IF w1.dailySpent + value > maxSpendPerDay
        THEN Revert("PolicyViolation: Exceeds maxSpendPerDay", pe2)
        ELSE IF HourlyGate(w2.hourlyTxCount, maxTxPerHour)
        THEN Revert("PolicyViolation: Exceeds maxTxPerHour", _checkCircuitBreaker(pe3, t))
        ELSE IF Len(wl) > 0 /\ ~isWhitelisted(wl, recipient)
        THEN Revert("PolicyViolation: Recipient not whitelisted", pe3)
        ELSE Ok(pe4)

pause(pe, sender) ==
    IF sender # pe.emergencyAdmin THEN Revert("UnauthorizedAdmin", pe)
    ELSE Ok([pe EXCEPT !.paused = TRUE])

unpause(pe, sender) ==
    IF sender # pe.emergencyAdmin THEN Revert("UnauthorizedAdmin", pe)
    ELSE Ok([pe EXCEPT !.paused = FALSE])

pauseAgent(pe, sender, agentId) ==
    IF sender # pe.emergencyAdmin THEN Revert("UnauthorizedAdmin", pe)
    ELSE Ok([pe EXCEPT !.agentPaused[agentId] = TRUE])

unpauseAgent(pe, sender, agentId) ==
    IF sender # pe.emergencyAdmin THEN Revert("UnauthorizedAdmin", pe)
    ELSE Ok([pe EXCEPT !.agentPaused[agentId] = FALSE])

\* ----------------------------------------------------------- AgentRegistry
\* struct Agent without publicKey and registeredAt, which are written at
\* registration and read by no function.
NoAgent == [owner |-> 0, wallet |-> 0, metadataCID |-> "", active |-> FALSE]

NoPolicy ==
    [maxSpendPerDay |-> 0, maxTxPerHour |-> 0, maxValuePerTx |-> 0,
     whitelistedAddresses |-> <<>>]

RegInit ==
    [agents |-> [a \in AgentIds |-> NoAgent],
     policies |-> [a \in AgentIds |-> NoPolicy],
     walletToAgentId |-> [x \in Addresses |-> 0]]

REG == [agents |-> agents, policies |-> policies, walletToAgentId |-> walletToAgentId]

onlyOwnerOrWallet(reg, sender, agentId) ==
    IF reg.agents[agentId].owner = 0 THEN "AgentNotFound"
    ELSE IF sender \notin {reg.agents[agentId].owner, reg.agents[agentId].wallet}
    THEN "UnauthorizedCaller"
    ELSE ""

\* modifier onlyOwner: the error it reverts with, "" when it lets the call in.
onlyOwner(reg, sender, agentId) ==
    IF reg.agents[agentId].owner = 0 THEN "AgentNotFound"
    ELSE IF sender # reg.agents[agentId].owner THEN "UnauthorizedCaller"
    ELSE ""

\* Whether an agent id is taken: its record has a wallet.
AgentTakenWhileActive(reg, agentId) == reg.agents[agentId].active
AgentTaken(reg, agentId) == reg.agents[agentId].wallet # 0

registerAgent(reg, sender, agentId, wallet, metadataCID, policy) ==
    IF AgentTaken(reg, agentId) THEN Revert("AgentAlreadyExists", reg)
    ELSE IF wallet = 0 THEN Revert("InvalidWalletAddress", reg)
    ELSE IF reg.walletToAgentId[wallet] # 0 THEN Revert("WalletAlreadyBound", reg)
    ELSE Ok([reg EXCEPT
                !.agents[agentId] = [owner |-> sender, wallet |-> wallet,
                                     metadataCID |-> metadataCID, active |-> TRUE],
                !.policies[agentId] = policy,
                !.walletToAgentId[wallet] = agentId])

updateMetadata(reg, sender, agentId, newMetadataCID) ==
    IF onlyOwner(reg, sender, agentId) # "" THEN Revert(onlyOwner(reg, sender, agentId), reg)
    ELSE Ok([reg EXCEPT !.agents[agentId].metadataCID = newMetadataCID])

updatePolicy(reg, sender, agentId, policy) ==
    IF onlyOwner(reg, sender, agentId) # "" THEN Revert(onlyOwner(reg, sender, agentId), reg)
    ELSE Ok([reg EXCEPT !.policies[agentId] = policy])

deactivateAgent(reg, sender, agentId) ==
    IF onlyOwner(reg, sender, agentId) # "" THEN Revert(onlyOwner(reg, sender, agentId), reg)
    ELSE Ok([reg EXCEPT !.agents[agentId].active = FALSE])

reactivateAgent(reg, sender, agentId) ==
    IF onlyOwner(reg, sender, agentId) # "" THEN Revert(onlyOwner(reg, sender, agentId), reg)
    ELSE Ok([reg EXCEPT !.agents[agentId].active = TRUE])

isAgentActiveAlways(reg, agentId) == TRUE
isAgentActive(reg, agentId) == reg.agents[agentId].active

getPolicy(reg, agentId) == reg.policies[agentId]

\* ------------------------------------------------------ CrossChainExecutor
NoIntent ==
    [intentId |-> 0, agentId |-> 0, srcChainId |-> 0, destChainId |-> 0,
     actionHash |-> <<>>, nonce |-> 0, expiry |-> 0, value |-> 0, recipient |-> 0,
     relayer |-> 0, submittedAt |-> 0, status |-> Pending]

NoRelayer ==
    [relayerAddress |-> 0, stakeAmount |-> 0, reputationScore |-> 0,
     intentsProcessed |-> 0, successfulExecutions |-> 0, isActive |-> FALSE,
     lastActive |-> 0]

\* The executor as constructed with _agentRegistry = registry.
ExInit(registry) ==
    [agentRegistry |-> registry,
     intents |-> [i \in IntentIds |-> NoIntent],
     agentNonces |-> [a \in AgentIds |-> 0],
     _status |-> _NOT_ENTERED,
     emitted |-> [a \in AgentIds |-> <<>>],
     authorizedRelayers |-> [x \in Addresses |-> FALSE],
     relayerInfo |-> [x \in Addresses |-> NoRelayer],
     activeRelayers |-> <<>>,
     balance |-> 0,
     sent |-> [x \in Addresses |-> 0]]

EX ==
    [agentRegistry |-> agentRegistry, intents |-> intents, agentNonces |-> agentNonces,
     _status |-> _status, emitted |-> emitted,
     authorizedRelayers |-> authorizedRelayers, relayerInfo |-> relayerInfo,
     activeRelayers |-> activeRelayers, balance |-> balance, sent |-> sent]

\* The three contracts' storage.
World == [reg |-> REG, pe |-> PE, ex |-> EX]

\* keccak256 of an action name.
ActionHash(action) == <<"keccak256", action>>

\* The EIP-712 digest of an intent under this deployment's domain separator.
IntentDigest(intent) ==
    [name |-> "AgentWallet", version |-> "1", chainId |-> SEPOLIA, intent |-> intent]

\* A signature is the key that made it and the digest it was made over;
\* signer 0 is a signature ecrecover cannot recover.
verifyIntentSignature(intent, signature) ==
    IF signature.length # 65 THEN Revert("Invalid signature length", 0)
    ELSE LET signer == IF signature.signer = 0 THEN 0
                       ELSE IF signature.digest = IntentDigest(intent) THEN signature.signer
                       ELSE JunkAddress
         IN  IF signer = 0 THEN Revert("Invalid signature", 0) ELSE Ok(signer)

NonceGateStale(nonce, current) == nonce < current
NonceGate(nonce, current) == nonce # current

StoredIntentValidated(intent) ==
    [intentId |-> intent.intentId, agentId |-> intent.agentId,
     srcChainId |-> intent.srcChainId, destChainId |-> intent.destChainId,
     actionHash |-> intent.actionHash, nonce |-> intent.nonce,
     expiry |-> intent.expiry, value |-> intent.value,
     recipient |-> intent.recipient, relayer |-> 0, submittedAt |-> 0,
     status |-> Validated]

StoredIntent(intent) ==
    [intentId |-> intent.intentId, agentId |-> intent.agentId,
     srcChainId |-> intent.srcChainId, destChainId |-> intent.destChainId,
     actionHash |-> intent.actionHash, nonce |-> intent.nonce,
     expiry |-> intent.expiry, value |-> intent.value,
     recipient |-> intent.recipient, relayer |-> 0, submittedAt |-> 0,
     status |-> Pending]

\* The calls of emitIntent into the registry need a contract at agentRegistry.
emitIntent(w, intent, signature, t) ==
    IF w.ex._status = _ENTERED THEN Revert("ReentrancyGuard: reentrant call", w)
    ELSE
    LET w0 == [w EXCEPT !.ex._status = _ENTERED]
        sg == verifyIntentSignature(intent, signature)
        agent == w0.reg.agents[intent.agentId]
        pr == checkPolicy(w0.pe, intent.agentId, intent.value, intent.recipient,
                          EMIT_MAX_SPEND_PER_DAY, EMIT_MAX_TX_PER_HOUR,
                          EMIT_MAX_VALUE_PER_TX, <<>>, t)
    IN  IF w0.ex.intents[intent.intentId].intentId # 0
        THEN Revert("IntentAlreadyExists", w0)
        ELSE IF intent.expiry < t THEN Revert("IntentExpired", w0)
        ELSE IF NonceGate(intent.nonce, w0.ex.agentNonces[intent.agentId])
        THEN Revert("InvalidNonce", w0)
        ELSE IF ~sg.ok THEN Revert(sg.err, w0)
        ELSE IF w0.ex.agentRegistry # REGISTRY_ADDRESS
        THEN Revert("call to an address without code", w0)
        ELSE IF ~isAgentActive(w0.reg, intent.agentId) THEN Revert("Agent not active", w0)
        ELSE IF agent.wallet = 0 THEN Revert("AgentNotFound", w0)
        ELSE IF sg.st # agent.wallet THEN Revert("Invalid agent signature", w0)
        ELSE IF ~pr.ok THEN Revert(pr.err, [w0 EXCEPT !.pe = pr.st])
        ELSE Ok([w0 EXCEPT
                    !.pe = pr.st,
                    !.ex.intents[intent.intentId] = StoredIntent(intent),
                    !.ex.agentNonces[intent.agentId] = @ + 1,
                    !.ex.emitted[intent.agentId] = Append(@, intent.nonce),
                    !.ex._status = _NOT_ENTERED])

submitIntent(ex, sender, intentId, t) ==
    IF ~ex.authorizedRelayers[sender] THEN Revert("UnauthorizedRelayer", ex)
    ELSE IF ex.intents[intentId].intentId = 0 THEN Revert("IntentNotFound", ex)
    ELSE IF ex.intents[intentId].status # Pending THEN Revert("IntentAlreadyExecuted", ex)
    ELSE Ok([ex EXCEPT !.intents[intentId].relayer = sender,
                       !.intents[intentId].submittedAt = t,
                       !.intents[intentId].status = Submitted])

\* executionData is what abi.decode makes of it: (action, targetAddress,
\* amount), or nothing when it does not decode.
executeIntent(ex, sender, intentId, executionData, t) ==
    IF ex._status = _ENTERED THEN Revert("ReentrancyGuard: reentrant call", ex)
    ELSE
    LET ex0 == [ex EXCEPT !._status = _ENTERED]
        intent == ex0.intents[intentId]
    IN  IF intent.intentId = 0 THEN Revert("IntentNotFound", ex0)
        ELSE IF intent.status # Submitted THEN Revert("IntentAlreadyExecuted", ex0)
        ELSE IF t < intent.submittedAt + TIMELOCK_DURATION
        THEN Revert("TimelockNotExpired", ex0)
        ELSE IF ~executionData.decodes THEN Revert("abi.decode", ex0)
        ELSE IF ActionHash(executionData.action) # intent.actionHash
        THEN Revert("Action mismatch", ex0)
        ELSE IF executionData.targetAddress # intent.recipient
        THEN Revert("Recipient mismatch", ex0)
        ELSE IF executionData.amount # intent.value THEN Revert("Amount mismatch", ex0)
        ELSE IF executionData.action \notin {"transfer", "call"}
        THEN Revert("Unsupported action", ex0)
        ELSE Ok([ex0 EXCEPT !.intents[intentId].status = Executed,
                            !._status = _NOT_ENTERED])

disputeIntent(ex, sender, intentId, reason) ==
    IF ex.intents[intentId].intentId = 0 THEN Revert("IntentNotFound", ex)
    ELSE Ok([ex EXCEPT !.intents[intentId].status = Disputed])

owner(ex) == ex.agentRegistry

authorizeRelayer(ex, sender, relayer) ==
    IF sender # owner(ex) THEN Revert("Only owner can authorize relayers", ex)
    ELSE IF relayer = 0 THEN Revert("Invalid relayer address", ex)
    ELSE Ok([ex EXCEPT !.authorizedRelayers[relayer] = TRUE])

revokeRelayer(ex, sender, relayer) ==
    IF sender # owner(ex) THEN Revert("Only owner can revoke relayers", ex)
    ELSE Ok([ex EXCEPT !.authorizedRelayers[relayer] = FALSE])

\* A variant of NewRelayer that starts a relayer at the top of the range.
NewRelayerTopScore(sender, stakeAmount, t) ==
    [relayerAddress |-> sender, stakeAmount |-> stakeAmount,
     reputationScore |-> MAX_REPUTATION, intentsProcessed |-> 0,
     successfulExecutions |-> 0, isActive |-> TRUE, lastActive |-> t]

\* The record registerRelayer writes for its caller.
NewRelayer(sender, stakeAmount, t) ==
    [relayerAddress |-> sender, stakeAmount |-> stakeAmount,
     reputationScore |-> INITIAL_REPUTATION, intentsProcessed |-> 0,
     successfulExecutions |-> 0, isActive |-> TRUE, lastActive |-> t]

\* msgValue is the ether sent with the call; the contract keeps all of it.
registerRelayer(ex, sender, stakeAmount, msgValue, t) ==
    IF stakeAmount < MIN_STAKE THEN Revert("Minimum stake is 0.1 ETH", ex)
    ELSE IF msgValue < stakeAmount THEN Revert("Insufficient stake amount", ex)
    ELSE IF ex.relayerInfo[sender].isActive THEN Revert("Already registered", ex)
    ELSE Ok([ex EXCEPT
                !.relayerInfo[sender] = NewRelayer(sender, stakeAmount, t),
                !.activeRelayers = Append(@, sender),
                !.balance = @ + msgValue,
                !.sent[sender] = @ + msgValue])

\* A variant of SwapRemove that leaves the array as it is.
SwapRemoveNone(seq, x) == seq

\* activeRelayers with the first entry equal to x overwritten by the last
\* entry and the last entry popped.
SwapRemove(seq, x) ==
    IF \E i \in 1 .. Len(seq) : seq[i] = x
    THEN LET i == CHOOSE k \in 1 .. Len(seq) :
                    seq[k] = x /\ \A j \in 1 .. (k - 1) : seq[j] # x
         IN  SubSeq([seq EXCEPT ![i] = seq[Len(seq)]], 1, Len(seq) - 1)
    ELSE seq

unregisterRelayer(ex, sender) ==
    IF ~ex.relayerInfo[sender].isActive THEN Revert("Not registered", ex)
    ELSE
    LET stakeToReturn == ex.relayerInfo[sender].stakeAmount
        ex1 == [ex EXCEPT !.activeRelayers = SwapRemove(@, sender),
                          !.relayerInfo[sender].isActive = FALSE,
                          !.relayerInfo[sender].stakeAmount = 0]
    IN  IF ex1.balance < stakeToReturn THEN Revert("transfer", ex1)
        ELSE Ok([ex1 EXCEPT !.balance = @ - stakeToReturn,
                            !.sent[sender] = @ - stakeToReturn])

\* Called by an externally owned account: msg.sender is never address(this).
updateRelayerReputation(ex, sender, relayer, success, t) ==
    IF ~ex.authorizedRelayers[sender] THEN Revert("Unauthorized", ex)
    ELSE IF ~ex.relayerInfo[relayer].isActive THEN Revert("Relayer not active", ex)
    ELSE
    LET info == ex.relayerInfo[relayer]
        rep == IF success
               THEN (IF info.reputationScore < MAX_REPUTATION
                     THEN info.reputationScore + 1 ELSE info.reputationScore)
               ELSE (IF info.reputationScore > MIN_REPUTATION
                     THEN info.reputationScore - 5 ELSE info.reputationScore)
    IN  Ok([ex EXCEPT !.relayerInfo[relayer] =
                [info EXCEPT !.intentsProcessed = @ + 1,
                             !.successfulExecutions = IF success THEN @ + 1 ELSE @,
                             !.reputationScore = rep,
                             !.lastActive = t]])

\* The score selectRelayer gives a relayer at time t (integer arithmetic).
RelayerScore(info, t) ==
    LET recent == IF t - info.lastActive < HOUR
                  THEN info.reputationScore + 10 ELSE info.reputationScore
    IN  IF info.intentsProcessed > 0
        THEN LET successRate ==
                    (info.successfulExecutions * 100) \div info.intentsProcessed
             IN  IF successRate < 80 THEN (recent * successRate) \div 100 ELSE recent
        ELSE recent

\* The loop of selectRelayer from index i on, with the best found so far.
RECURSIVE BestFrom(_, _, _, _)
BestFrom(ex, t, i, best) ==
    IF i > Len(ex.activeRelayers) THEN best
    ELSE LET relayer == ex.activeRelayers[i]
             info == ex.relayerInfo[relayer]
         IN  IF info.isActive /\ RelayerScore(info, t) > best.bestScore
             THEN BestFrom(ex, t, i + 1, [bestScore |-> RelayerScore(info, t),
                                          bestRelayer |-> relayer])
             ELSE BestFrom(ex, t, i + 1, best)

\* A view: ret is the relayer returned, st the storage (left as it was).
selectRelayer(ex, intentId, t) ==
    IF Len(ex.activeRelayers) = 0
    THEN [ok |-> FALSE, err |-> "No active relayers", st |-> ex, ret |-> 0]
    ELSE LET best == BestFrom(ex, t, 1, [bestScore |-> 0, bestRelayer |-> 0])
         IN  IF best.bestRelayer = 0
             THEN [ok |-> FALSE, err |-> "No suitable relayer found", st |-> ex, ret |-> 0]
             ELSE [ok |-> TRUE, err |-> "", st |-> ex, ret |-> best.bestRelayer]

getNonce(ex, agentId) == ex.agentNonces[agentId]

\* ---------------------------------------------------------------- AuditLog
\* The append-only log of commitments; commitmentExists is the set of hashes
\* logged.
AuditInit == [entries |-> <<>>, commitmentExists |-> {}]

AUDIT == [entries |-> auditEntries, commitmentExists |-> commitmentExists]

\* A variant of CommitmentLogged that looks at the agent's own entries only.
CommitmentLoggedByAgent(au, agentId, commitmentHash) ==
    \E i \in 1 .. Len(au.entries) :
        /\ au.entries[i].agentId = agentId
        /\ au.entries[i].commitmentHash = commitmentHash

\* The replay test of logCommitment: the hash was logged before, by any agent.
CommitmentLogged(au, agentId, commitmentHash) ==
    commitmentHash \in au.commitmentExists

logCommitment(au, sender, agentId, commitmentHash, ipfsCID, t) ==
    IF agentId = 0 THEN Revert("InvalidAgentId", au)
    ELSE IF commitmentHash = 0 THEN Revert("InvalidCommitment", au)
    ELSE IF CommitmentLogged(au, agentId, commitmentHash)
    THEN Revert("CommitmentAlreadyExists", au)
    ELSE Ok([au EXCEPT
                !.entries = Append(@, [agentId |-> agentId,
                                       commitmentHash |-> commitmentHash,
                                       ipfsCID |-> ipfsCID, timestamp |-> t]),
                !.commitmentExists = @ \cup {commitmentHash}])

\* ------------------------------------------------- storing a call's outcome
SetPE(pe) ==
    /\ rollingWindows' = pe.rollingWindows
    /\ circuitBreaker' = pe.circuitBreaker
    /\ paused' = pe.paused
    /\ agentPaused' = pe.agentPaused
    /\ policyChecked' = pe.policyChecked

SetREG(reg) ==
    /\ agents' = reg.agents
    /\ policies' = reg.policies
    /\ walletToAgentId' = reg.walletToAgentId

SetEX(ex) ==
    /\ agentRegistry' = ex.agentRegistry
    /\ intents' = ex.intents
    /\ agentNonces' = ex.agentNonces
    /\ _status' = ex._status
    /\ emitted' = ex.emitted
    /\ authorizedRelayers' = ex.authorizedRelayers
    /\ relayerInfo' = ex.relayerInfo
    /\ activeRelayers' = ex.activeRelayers
    /\ balance' = ex.balance
    /\ sent' = ex.sent

SetAUDIT(au) ==
    /\ auditEntries' = au.entries
    /\ commitmentExists' = au.commitmentExists

SetWorld(w) == SetREG(w.reg) /\ SetPE(w.pe) /\ SetEX(w.ex)

Called(op, res, args) == last' = [op |-> op, ok |-> res.ok, err |-> res.err, args |-> args]

\* ------------------------------------------- the backend's intent routes
\* The agent the schema seeds (is_active defaults to true); the user_id column
\* is added afterwards and is NULL (0) until the agent is given to a user.
TestAgent == 1

SeededAgents == [a \in {TestAgent} |-> [user_id |-> 0, is_active |-> TRUE]]

\* The values the CHECK constraint of intents.status admits.
StatusCheck == {"pending", "validated", "submitted", "executed", "disputed", "failed"}

\* The request bodies of POST /intents: for the seeded agent, for an agent
\* the table does not hold, and one without params.
CreateBody(agentId, params) ==
    [agentId |-> agentId, srcChainId |-> 1, destChainId |-> 2,
     action |-> 1, params |-> params]

\* keccak256 of (agentId, srcChainId, destChainId, action, Date.now()): equal
\* for equal fields in the same millisecond, different otherwise.
IntentIdOf(body, ms) ==
    ((((body.agentId * 10 + body.srcChainId) * 10 + body.destChainId) * 10
        + body.action) * 10) + ms

\* The ids a path may carry: those POST /intents can give, and one that is
\* not 0x followed by 64 hex digits (-1).
Millis == {1, 2, 3}

PathIds == {IntentIdOf(CreateBody(TestAgent, 1), ms) : ms \in Millis} \cup {-1}

validateIntentId(id) == id > 0

\* SELECT * FROM agents WHERE agent_id = $1 AND user_id = $2
SelectAgent(agentsTable, agentId, userId) ==
    {a \in DOMAIN agentsTable : a = agentId /\ agentsTable[a].user_id = userId}

\* SELECT COUNT(*) FROM intents WHERE agent_id = $1
CountIntents(rows, agentId) == Cardinality({r \in rows : r.agent_id = agentId})

\* INSERT INTO intents without the UNIQUE(agent_id, nonce) constraint.
InsertIntentAnyNonce(rows, row) ==
    IF \/ row.status \notin StatusCheck
       \/ \E r \in rows : r.intent_id = row.intent_id
    THEN [ok |-> FALSE, rows |-> rows]
    ELSE [ok |-> TRUE, rows |-> rows \cup {row}]

\* INSERT INTO intents: the statement fails, and stores nothing, when the row
\* breaks the status CHECK, UNIQUE(intent_id) or UNIQUE(agent_id, nonce).
InsertIntent(rows, row) ==
    IF \/ row.status \notin StatusCheck
       \/ \E r \in rows : r.intent_id = row.intent_id
       \/ \E r \in rows : r.agent_id = row.agent_id /\ r.nonce = row.nonce
    THEN [ok |-> FALSE, rows |-> rows]
    ELSE [ok |-> TRUE, rows |-> rows \cup {row}]

\* UPDATE intents SET ... WHERE intent_id = $2, whatever the row's status.
UpdateAnyStatus(rows, intentId, from, set) ==
    LET hit == {r \in rows : r.intent_id = intentId}
    IN  [returned |-> hit,
         rows |-> (rows \ hit) \cup {[f \in DOMAIN r |->
                                        IF f \in DOMAIN set THEN set[f] ELSE r[f]] : r \in hit}]

\* UPDATE intents SET ... WHERE intent_id = $2 AND status IN from RETURNING *:
\* one statement, which tests and writes the row it matches at once.
UpdateIntent(rows, intentId, from, set) ==
    LET hit == {r \in rows : r.intent_id = intentId /\ r.status \in from}
    IN  [returned |-> hit,
         rows |-> (rows \ hit) \cup {[f \in DOMAIN r |->
                                        IF f \in DOMAIN set THEN set[f] ELSE r[f]] : r \in hit}]

\* reason.trim() of the reasons a dispute is sent with.
Trim(reason) == IF reason = " " THEN "" ELSE reason

\* The requests in flight: a slot holds a request between two of its awaits.
MaxInFlight == 2
MaxRequests == 4
Slots == 1 .. MaxInFlight

Idle == [route |-> "idle", phase |-> "", userId |-> 0, body |-> CreateBody(0, 0),
         intentId |-> 0, relayer |-> 0, reason |-> "", nonce |-> 0]

\* A request in flight: what it was sent with, the statement it waits for
\* (phase), and what its earlier statements gave it (intentId, nonce).
Request(route, phase, userId, body, intentId, relayer, reason) ==
    [route |-> route, phase |-> phase, userId |-> userId, body |-> body,
     intentId |-> intentId, relayer |-> relayer, reason |-> reason, nonce |-> 0]

Received == BagCardinality(answered) + Cardinality({k \in Slots : inflight[k] # Idle})

FreeSlot == CHOOSE k \in Slots : inflight[k] = Idle /\ \A j \in Slots : j < k => inflight[j] # Idle

\* The request is answered: the answer is logged and is the last call's outcome.
Answer(route, intentId, code, args) ==
    /\ answered' = answered (+) SetToBag({[route |-> route, intentId |-> intentId,
                                           code |-> code]})
    /\ last' = [op |-> route, ok |-> code < 400, err |-> "",
                args |-> [code |-> code, intentId |-> intentId] @@ args]

\* The request in slot k waits for its next statement (code 0: no answer yet).
Awaiting(route, k) ==
    /\ last' = [op |-> route, ok |-> TRUE, err |-> "",
                args |-> [code |-> 0, intentId |-> inflight'[k].intentId, slot |-> k]]
    /\ UNCHANGED answered

\* The request waits for its first statement in the lowest free slot.
Park(req) ==
    /\ \E k \in Slots : inflight[k] = Idle
    /\ inflight' = [inflight EXCEPT ![FreeSlot] = req]
    /\ Awaiting(req.route, FreeSlot)

\* ----------------------------------------------------------------- actions
\* The state after the three contracts and the audit log are constructed; the
\* executor's constructor takes the registry's address from its deployer.
InitWith(registries) ==
    /\ now = StartTime
    /\ ticks = 0
    /\ rollingWindows = PEInit.rollingWindows
    /\ circuitBreaker = PEInit.circuitBreaker
    /\ paused = PEInit.paused
    /\ agentPaused = PEInit.agentPaused
    /\ policyChecked = PEInit.policyChecked
    /\ agents = RegInit.agents
    /\ policies = RegInit.policies
    /\ walletToAgentId = RegInit.walletToAgentId
    /\ \E registry \in registries :
        /\ agentRegistry = ExInit(registry).agentRegistry
        /\ intents = ExInit(registry).intents
        /\ agentNonces = ExInit(registry).agentNonces
        /\ _status = ExInit(registry)._status
        /\ emitted = ExInit(registry).emitted
        /\ authorizedRelayers = ExInit(registry).authorizedRelayers
        /\ relayerInfo = ExInit(registry).relayerInfo
        /\ activeRelayers = ExInit(registry).activeRelayers
        /\ balance = ExInit(registry).balance
        /\ sent = ExInit(registry).sent
    /\ auditEntries = AuditInit.entries
    /\ commitmentExists = AuditInit.commitmentExists
    /\ dbAgents = SeededAgents
    /\ dbIntents = {}
    /\ inflight = [k \in Slots |-> Idle]
    /\ answered = EmptyBag
    /\ last = [op |-> "init", ok |-> TRUE, err |-> "", args |-> <<>>]

\* Deployed as the deployment script does, with the registry contract's
\* address, or with the deployer's own account in the registry's place.
Init == InitWith({REGISTRY_ADDRESS, Deployer})

InitDeployed == InitWith({REGISTRY_ADDRESS})

\* Time passes between two transactions.
Tick(d, maxTicks) ==
    /\ ticks < maxTicks
    /\ now' = now + d
    /\ ticks' = ticks + 1
    /\ last' = [op |-> "tick", ok |-> TRUE, err |-> "", args |-> <<>>]
    /\ UNCHANGED <<peVars, regVars, exVars, auVars, dbVars>>

\* Anyone calls PolicyEngine.checkPolicy with limits of its choosing.
CheckPolicy(agentId, value, recipient, p) ==
    LET res == checkPolicy(PE, agentId, value, recipient, p.maxSpendPerDay,
                           p.maxTxPerHour, p.maxValuePerTx,
                           p.whitelistedAddresses, now)
    IN  /\ SetPE(Commit(PE, res))
        /\ Called("checkPolicy", res,
                  [agentId |-> agentId, value |-> value, recipient |-> recipient,
                   policy |-> p])
        /\ UNCHANGED <<dbVars, now, ticks, regVars, exVars, auVars>>

Pause(sender) ==
    LET res == pause(PE, sender)
    IN  /\ SetPE(Commit(PE, res))
        /\ Called("pause", res, [sender |-> sender])
        /\ UNCHANGED <<dbVars, now, ticks, regVars, exVars, auVars>>

Unpause(sender) ==
    LET res == unpause(PE, sender)
    IN  /\ SetPE(Commit(PE, res))
        /\ Called("unpause", res, [sender |-> sender])
        /\ UNCHANGED <<dbVars, now, ticks, regVars, exVars, auVars>>

PauseAgent(sender, agentId) ==
    LET res == pauseAgent(PE, sender, agentId)
    IN  /\ SetPE(Commit(PE, res))
        /\ Called("pauseAgent", res, [sender |-> sender, agentId |-> agentId])
        /\ UNCHANGED <<dbVars, now, ticks, regVars, exVars, auVars>>

UnpauseAgent(sender, agentId) ==
    LET res == unpauseAgent(PE, sender, agentId)
    IN  /\ SetPE(Commit(PE, res))
        /\ Called("unpauseAgent", res, [sender |-> sender, agentId |-> agentId])
        /\ UNCHANGED <<dbVars, now, ticks, regVars, exVars, auVars>>

RegisterAgent(sender, agentId, wallet, cid, p) ==
    LET res == registerAgent(REG, sender, agentId, wallet, cid, p)
    IN  /\ SetREG(Commit(REG, res))
        /\ Called("registerAgent", res,
                  [sender |-> sender, agentId |-> agentId, wallet |-> wallet])
        /\ UNCHANGED <<dbVars, now, ticks, peVars, exVars, auVars>>

UpdatePolicy(sender, agentId, p) ==
    LET res == updatePolicy(REG, sender, agentId, p)
    IN  /\ SetREG(Commit(REG, res))
        /\ Called("updatePolicy", res, [sender |-> sender, agentId |-> agentId])
        /\ UNCHANGED <<dbVars, now, ticks, peVars, exVars, auVars>>

UpdateMetadata(sender, agentId, newMetadataCID) ==
    LET res == updateMetadata(REG, sender, agentId, newMetadataCID)
    IN  /\ SetREG(Commit(REG, res))
        /\ Called("updateMetadata", res, [sender |-> sender, agentId |-> agentId])
        /\ UNCHANGED <<dbVars, now, ticks, peVars, exVars, auVars>>

DeactivateAgent(sender, agentId) ==
    LET res == deactivateAgent(REG, sender, agentId)
    IN  /\ SetREG(Commit(REG, res))
        /\ Called("deactivateAgent", res, [sender |-> sender, agentId |-> agentId])
        /\ UNCHANGED <<dbVars, now, ticks, peVars, exVars, auVars>>

ReactivateAgent(sender, agentId) ==
    LET res == reactivateAgent(REG, sender, agentId)
    IN  /\ SetREG(Commit(REG, res))
        /\ Called("reactivateAgent", res, [sender |-> sender, agentId |-> agentId])
        /\ UNCHANGED <<dbVars, now, ticks, peVars, exVars, auVars>>

\* Anyone hands a signed intent to emitIntent.
EmitIntent(intent, signature) ==
    LET res == emitIntent(World, intent, signature, now)
    IN  /\ SetWorld(Commit(World, res))
        /\ Called("emitIntent", res,
                  [intentId |-> intent.intentId, agentId |-> intent.agentId,
                   nonce |-> intent.nonce])
        /\ UNCHANGED <<dbVars, now, ticks, auVars>>

SubmitIntent(sender, intentId) ==
    LET res == submitIntent(EX, sender, intentId, now)
    IN  /\ SetEX(Commit(EX, res))
        /\ Called("submitIntent", res, [sender |-> sender, intentId |-> intentId])
        /\ UNCHANGED <<dbVars, now, ticks, peVars, regVars, auVars>>

ExecuteIntent(sender, intentId, executionData) ==
    LET res == executeIntent(EX, sender, intentId, executionData, now)
    IN  /\ SetEX(Commit(EX, res))
        /\ Called("executeIntent", res, [sender |-> sender, intentId |-> intentId])
        /\ UNCHANGED <<dbVars, now, ticks, peVars, regVars, auVars>>

DisputeIntent(sender, intentId, reason) ==
    LET res == disputeIntent(EX, sender, intentId, reason)
    IN  /\ SetEX(Commit(EX, res))
        /\ Called("disputeIntent", res,
                  [sender |-> sender, intentId |-> intentId, reason |-> reason])
        /\ UNCHANGED <<dbVars, now, ticks, peVars, regVars, auVars>>

AuthorizeRelayer(sender, relayer) ==
    LET res == authorizeRelayer(EX, sender, relayer)
    IN  /\ SetEX(Commit(EX, res))
        /\ Called("authorizeRelayer", res, [sender |-> sender, relayer |-> relayer])
        /\ UNCHANGED <<dbVars, now, ticks, peVars, regVars, auVars>>

RevokeRelayer(sender, relayer) ==
    LET res == revokeRelayer(EX, sender, relayer)
    IN  /\ SetEX(Commit(EX, res))
        /\ Called("revokeRelayer", res, [sender |-> sender, relayer |-> relayer])
        /\ UNCHANGED <<dbVars, now, ticks, peVars, regVars, auVars>>

RegisterRelayer(sender, stakeAmount, msgValue) ==
    LET res == registerRelayer(EX, sender, stakeAmount, msgValue, now)
    IN  /\ SetEX(Commit(EX, res))
        /\ Called("registerRelayer", res,
                  [sender |-> sender, stakeAmount |-> stakeAmount, msgValue |-> msgValue])
        /\ UNCHANGED <<dbVars, now, ticks, peVars, regVars, auVars>>

UnregisterRelayer(sender) ==
    LET res == unregisterRelayer(EX, sender)
    IN  /\ SetEX(Commit(EX, res))
        /\ Called("unregisterRelayer", res, [sender |-> sender])
        /\ UNCHANGED <<dbVars, now, ticks, peVars, regVars, auVars>>

\* The run is bounded by the number of intents a relayer is scored for.
UpdateRelayerReputation(sender, relayer, success, maxProcessed) ==
    /\ relayerInfo[relayer].intentsProcessed < maxProcessed
    /\ LET res == updateRelayerReputation(EX, sender, relayer, success, now)
       IN  /\ SetEX(Commit(EX, res))
           /\ Called("updateRelayerReputation", res,
                     [sender |-> sender, relayer |-> relayer, success |-> success])
           /\ UNCHANGED <<dbVars, now, ticks, peVars, regVars, auVars>>

\* One call of a rate-limit bypass attempt: a policy check by a party that
\* counts the checks rejected for the hourly cap, up to MaxViolations.
RateLimitBypass(agentId, value, p) ==
    LET res == checkPolicy(PE, agentId, value, 1, p.maxSpendPerDay, p.maxTxPerHour,
                           p.maxValuePerTx, p.whitelistedAddresses, now)
        seen == IF last.op = "rateLimitBypass" THEN last.args.violations ELSE 0
        hit == IF res.err = "PolicyViolation: Exceeds maxTxPerHour" THEN 1 ELSE 0
    IN  /\ seen < MaxViolations
        /\ SetPE(Commit(PE, res))
        /\ Called("rateLimitBypass", res,
                  [agentId |-> agentId, violations |-> seen + hit])
        /\ UNCHANGED <<dbVars, now, ticks, regVars, exVars, auVars>>

\* Anyone asks which relayer would carry an intent.
SelectRelayer(intentId) ==
    LET res == selectRelayer(EX, intentId, now)
    IN  /\ SetEX(Commit(EX, res))
        /\ Called("selectRelayer", res, [selected |-> res.ret])
        /\ UNCHANGED <<dbVars, now, ticks, peVars, regVars, auVars>>

LogCommitment(sender, agentId, commitmentHash, ipfsCID) ==
    LET res == logCommitment(AUDIT, sender, agentId, commitmentHash, ipfsCID, now)
    IN  /\ SetAUDIT(Commit(AUDIT, res))
        /\ Called("logCommitment", res,
                  [agentId |-> agentId, commitmentHash |-> commitmentHash])
        /\ UNCHANGED <<dbVars, now, ticks, peVars, regVars, exVars>>

\* ------------------------------------------------------------ call inputs
\* The intents handed to emitIntent: transfers to account 1 on this chain.
IntentDatas(ids, agentIds, expiries, values) ==
    [intentId : ids, agentId : agentIds, srcChainId : {SEPOLIA},
     destChainId : {SEPOLIA}, actionHash : {ActionHash("transfer")},
     nonce : Nonces, expiry : expiries, value : values, recipient : {1}]

\* The signatures handed in with an intent: made by some account's key over
\* the intent or over another one, or of the wrong length.
Signatures(intent) ==
    [length : {65}, signer : Accounts, digest : {IntentDigest(intent)}]
    \cup {[length |-> 65, signer |-> 1,
           digest |-> IntentDigest([intent EXCEPT !.value = @ + 1])],
          [length |-> 64, signer |-> 1, digest |-> IntentDigest(intent)]}

\* What executeIntent is handed for an intent: the committed action, another
\* amount, or bytes that do not decode.
ExecutionDatas(intent) ==
    {[decodes |-> TRUE, action |-> "transfer", targetAddress |-> intent.recipient,
      amount |-> intent.value],
     [decodes |-> TRUE, action |-> "transfer", targetAddress |-> intent.recipient,
      amount |-> intent.value + 1],
     [decodes |-> FALSE, action |-> "", targetAddress |-> 0, amount |-> 0]}

MetadataCIDs == {"QmAgent"}

\* -------------------------------------------------------- the PolicyEngine
\* Checks of 0.1 and 0.2 ether under either policy for agent 1, one check of
\* no value for agent 1 and one kind of check for agent 0; the emergency admin
\* pauses the system and agent 1.
NextPolicy ==
    \/ \E d \in Deltas : Tick(d, MaxTicks)
    \/ \E value \in {1, 2}, recipient \in Accounts, p \in Policies :
        CheckPolicy(1, value, recipient, p)
    \/ CheckPolicy(1, 0, 1, StrictPolicy)
    \/ CheckPolicy(0, 1, 1, StrictPolicy)
    \/ \E sender \in Accounts : Pause(sender)
    \/ \E sender \in Accounts : Unpause(sender)
    \/ \E sender \in Accounts : PauseAgent(sender, 1)
    \/ \E sender \in Accounts : UnpauseAgent(sender, 1)

SpecPolicy == InitDeployed /\ [][NextPolicy]_vars

\* ----------------------------------- registration, policy update and emit
\* Intents of 0.1 ether, expired or expiring now, for both agents and ids.
NextEmit ==
    \/ \E wallet \in Addresses, cid \in MetadataCIDs, p \in Policies :
        RegisterAgent(Deployer, 1, wallet, cid, p)
    \/ \E cid \in MetadataCIDs : RegisterAgent(Deployer, 0, 2, cid, StrictPolicy)
    \/ \E sender \in Accounts, p \in Policies : UpdatePolicy(sender, 1, p)
    \/ \E intent \in IntentDatas(IntentIds, AgentIds, {now - 1, now}, {1}) :
        \E signature \in Signatures(intent) : EmitIntent(intent, signature)

SpecEmit == InitDeployed /\ [][NextEmit]_vars

\* -------------------------------------- every mutating call of the engine
\* One agent (1, signing with account 1), one intent id (1) and one relaying
\* party (account 2); account 1 deployed the contracts.
Next ==
    \/ Tick(HOUR, MaxTicks)
    \/ \E wallet \in {0, 1} : RegisterAgent(Deployer, 1, wallet, "QmAgent", StrictPolicy)
    \/ CheckPolicy(1, 1, 1, StrictPolicy)
    \/ \E intent \in IntentDatas({1}, {1}, {now}, {1, 2}) :
        \E signer \in {0, 1} :
            EmitIntent(intent, [length |-> 65, signer |-> signer,
                                digest |-> IntentDigest(intent)])
    \/ SubmitIntent(2, 1)
    \/ \E executionData \in ExecutionDatas(intents[1]) : ExecuteIntent(2, 1, executionData)
    \/ DisputeIntent(1, 1, "mismatch")
    \/ \E sender \in Accounts : AuthorizeRelayer(sender, 2)
    \/ \E stakeAmount \in {0, 1} : RegisterRelayer(2, stakeAmount, stakeAmount)
    \/ UnregisterRelayer(2)
    \/ \E success \in BOOLEAN : UpdateRelayerReputation(2, 2, success, MaxProcessed)
    \/ \E agentId \in AgentIds : LogCommitment(1, agentId, 1, "QmCommitment")

Spec == Init /\ [][Next]_vars

\* ------------------------------------------------------- the registry
\* Any account registers either agent with any wallet and calls the owner's
\* operations.
NextRegistry ==
    \/ \E sender \in Accounts, agentId \in AgentIds, wallet \in Addresses :
        RegisterAgent(sender, agentId, wallet, "QmAgent", StrictPolicy)
    \/ \E sender \in Accounts, agentId \in AgentIds, p \in Policies :
        UpdatePolicy(sender, agentId, p)
    \/ \E sender \in Accounts, agentId \in AgentIds :
        UpdateMetadata(sender, agentId, "QmNew")
    \/ \E sender \in Accounts, agentId \in AgentIds : DeactivateAgent(sender, agentId)
    \/ \E sender \in Accounts, agentId \in AgentIds : ReactivateAgent(sender, agentId)

SpecRegistry == InitDeployed /\ [][NextRegistry]_vars

\* --------------------------------------------- activation and emission
\* Agent 1 is registered with either account as its wallet, deactivated and
\* reactivated; intents are emitted for agent 1 and for the unknown agent 0.
EmitInputs == IntentDatas(IntentIds, AgentIds, {now}, {1})

NextActivation ==
    \/ \E wallet \in Accounts : RegisterAgent(Deployer, 1, wallet, "QmAgent", StrictPolicy)
    \/ \E sender \in Accounts : DeactivateAgent(sender, 1)
    \/ \E sender \in Accounts : ReactivateAgent(sender, 1)
    \/ \E intent \in EmitInputs :
        \E signature \in Signatures(intent) : EmitIntent(intent, signature)

SpecActivation == InitDeployed /\ [][NextActivation]_vars

\* ------------------------------------------------- the intent lifecycle
\* Agent 1 (signing with account 1) emits; any account submits, executes and
\* disputes; any account tries to authorize account 2 as a relayer.
NextLifecycle ==
    \/ Tick(TIMELOCK_DURATION, MaxTicks)
    \/ RegisterAgent(Deployer, 1, 1, "QmAgent", StrictPolicy)
    \/ \E intent \in IntentDatas(IntentIds, {1}, {now}, {1}) :
        EmitIntent(intent, [length |-> 65, signer |-> 1, digest |-> IntentDigest(intent)])
    \/ \E sender \in Accounts : AuthorizeRelayer(sender, 2)
    \/ \E sender \in Accounts, intentId \in IntentIds : SubmitIntent(sender, intentId)
    \/ \E sender \in Accounts, intentId \in IntentIds :
        \E executionData \in ExecutionDatas(intents[intentId]) :
            ExecuteIntent(sender, intentId, executionData)
    \/ \E sender \in Accounts, intentId \in IntentIds, reason \in {"", "mismatch"} :
        DisputeIntent(sender, intentId, reason)

SpecLifecycle == Init /\ [][NextLifecycle]_vars

\* ------------------------------------------------ the relayer directory
\* Both accounts register and unregister as relayers, staking 0.1 ether and
\* sending up to 0.2 ether; any account tries to authorize and to revoke
\* account 2, to score relayer 2, and asks for a selection.  The run is
\* bounded by the ether the executor holds.
NextRelayers ==
    \/ Tick(HOUR, MaxTicks)
    \/ \E sender \in Accounts : AuthorizeRelayer(sender, 2)
    \/ \E sender \in Accounts : RevokeRelayer(sender, 2)
    \/ \E sender \in Accounts, stakeAmount \in {0, 1}, msgValue \in {0, 1, 2} :
        /\ balance + msgValue <= MaxHeld
        /\ RegisterRelayer(sender, stakeAmount, msgValue)
    \/ \E sender \in Accounts : UnregisterRelayer(sender)
    \/ \E sender \in Accounts, success \in BOOLEAN :
        UpdateRelayerReputation(sender, 2, success, MaxProcessed)
    \/ SelectRelayer(1)

SpecRelayers == Init /\ [][NextRelayers]_vars

\* ------------------------------------------------- a relayer's reputation
\* Account 2 registers, is authorized by the deployer and is scored many
\* times over.
NextReputation ==
    \/ AuthorizeRelayer(Deployer, 2)
    \/ RegisterRelayer(2, 1, 1)
    \/ UnregisterRelayer(2)
    \/ \E success \in BOOLEAN : UpdateRelayerReputation(2, 2, success, MaxUpdates)

SpecReputation == Init /\ [][NextReputation]_vars

\* ------------------------------------------------------- the audit log
\* Agents 1 and 2 (and the empty agent id 0) log the commitments 1 and 2
\* (and the empty hash 0).
NextAudit ==
    \/ Tick(HOUR, MaxTicks)
    \/ \E agentId \in {0, 1, 2}, commitmentHash \in {0, 1, 2} :
        LogCommitment(Deployer, agentId, commitmentHash, "QmCommitment")

SpecAudit == InitDeployed /\ [][NextAudit]_vars

\* ------------------------------------------------- the rolling windows
\* The limits every check of NextWindows passes.
WindowLimits ==
    [maxSpendPerDay |-> 2, maxTxPerHour |-> 2, maxValuePerTx |-> 1,
     whitelistedAddresses |-> <<>>]

\* Checks of nothing and of 0.1 ether for agent 1, always with the same
\* limits, half an hour or a day apart.
NextWindows ==
    \/ \E d \in {HOUR \div 2, DAY} : Tick(d, MaxWindowTicks)
    \/ \E value \in {0, 1} : CheckPolicy(1, value, 1, WindowLimits)

SpecWindows == InitDeployed /\ [][NextWindows]_vars

\* ------------------------------------------------- a rate-limit bypass
\* Checks of nothing and of 0.1 ether for both agents, one after the other
\* at one time, by a party counting the hourly rejections.
NextBypass ==
    \E agentId \in AgentIds, value \in {0, 1} :
        RateLimitBypass(agentId, value, WindowLimits)

SpecBypass == InitDeployed /\ [][NextBypass]_vars

\* --------------------------------------------- driving an intent through
\* Agent 1 (signing with account 1) emits both intents; every account tries
\* to authorize account 2, account 2 submits, waits for the timelock and
\* executes with the payload the intent commits to.
DriveAuthorize == \E sender \in Accounts : AuthorizeRelayer(sender, 2)

DriveSubmit == \E intentId \in IntentIds : SubmitIntent(2, intentId)

DriveExecute ==
    \E intentId \in IntentIds :
        ExecuteIntent(2, intentId,
                      [decodes |-> TRUE, action |-> "transfer",
                       targetAddress |-> intents[intentId].recipient,
                       amount |-> intents[intentId].value])

NextDrive ==
    \/ Tick(TIMELOCK_DURATION, MaxTicks)
    \/ RegisterAgent(Deployer, 1, 1, "QmAgent", StrictPolicy)
    \/ \E intent \in IntentDatas(IntentIds, {1}, {now + DAY}, {1}) :
        EmitIntent(intent, [length |-> 65, signer |-> 1, digest |-> IntentDigest(intent)])
    \/ DriveAuthorize
    \/ DriveSubmit
    \/ DriveExecute

\* The callers keep calling: the authorization, the submission and the
\* execution are attempted again and again, and time passes.
SpecDrive ==
    /\ Init /\ [][NextDrive]_vars
    /\ SF_vars(Tick(TIMELOCK_DURATION, MaxTicks))
    /\ SF_vars(DriveAuthorize) /\ SF_vars(DriveSubmit) /\ SF_vars(DriveExecute)

\* ----------------------------------------------- the REST intent routes
\* The agent is given to a user (agents.user_id is written by no statement of
\* the routes; the dashboard does it).
AssignAgent(userId) ==
    /\ dbAgents[TestAgent].user_id = 0
    /\ dbAgents' = [dbAgents EXCEPT ![TestAgent].user_id = userId]
    /\ last' = [op |-> "assignAgent", ok |-> TRUE, err |-> "", args |-> [userId |-> userId]]
    /\ UNCHANGED <<dbIntents, inflight, answered>>
    /\ UNCHANGED <<now, ticks, peVars, regVars, exVars, auVars>>

PostIntents == "POST /intents"
PostSubmit == "POST /intents/:id/submit"
PostExecute == "POST /intents/:id/execute"
PostDispute == "POST /intents/:id/dispute"

\* POST /intents up to its first await: 401 without a user, 400 without a
\* required field.
ReceiveCreate(userId, body) ==
    /\ Received < MaxRequests
    /\ IF userId = 0
       THEN Answer(PostIntents, 0, 401, [agentId |-> body.agentId]) /\ UNCHANGED inflight
       ELSE IF body.agentId = 0 \/ body.srcChainId = 0 \/ body.destChainId = 0
                \/ body.action = 0 \/ body.params = 0
       THEN Answer(PostIntents, 0, 400, [agentId |-> body.agentId]) /\ UNCHANGED inflight
       ELSE Park(Request(PostIntents, "agentQuery", userId, body, 0, 0, ""))
    /\ UNCHANGED <<dbAgents, dbIntents>>
    /\ UNCHANGED <<now, ticks, peVars, regVars, exVars, auVars>>

\* The agent query answers: 403 for no row, 400 for an inactive agent; else
\* the intent id is computed from the fields and Date.now().
CreateSelectAgent(k, ms) ==
    LET req == inflight[k]
        found == SelectAgent(dbAgents, req.body.agentId, req.userId)
    IN  /\ req.route = PostIntents /\ req.phase = "agentQuery"
        /\ IF found = {}
           THEN /\ inflight' = [inflight EXCEPT ![k] = Idle]
                /\ Answer(PostIntents, 0, 403, [agentId |-> req.body.agentId])
           ELSE IF \E a \in found : ~dbAgents[a].is_active
           THEN /\ inflight' = [inflight EXCEPT ![k] = Idle]
                /\ Answer(PostIntents, 0, 400, [agentId |-> req.body.agentId])
           ELSE /\ inflight' = [inflight EXCEPT ![k].phase = "nonceQuery",
                                               ![k].intentId = IntentIdOf(req.body, ms)]
                /\ Awaiting(PostIntents, k)
        /\ UNCHANGED <<dbAgents, dbIntents>>
        /\ UNCHANGED <<now, ticks, peVars, regVars, exVars, auVars>>

\* The nonce query answers: the number of the agent's rows.
CreateCountNonce(k) ==
    LET req == inflight[k]
    IN  /\ req.route = PostIntents /\ req.phase = "nonceQuery"
        /\ inflight' = [inflight EXCEPT ![k].phase = "insert",
                                        ![k].nonce = CountIntents(dbIntents, req.body.agentId)]
        /\ Awaiting(PostIntents, k)
        /\ UNCHANGED <<dbAgents, dbIntents>>
        /\ UNCHANGED <<now, ticks, peVars, regVars, exVars, auVars>>

\* The insert answers: 201 with the row stored, 500 when the statement failed.
CreateInsert(k) ==
    LET req == inflight[k]
        row == [intent_id |-> req.intentId, agent_id |-> req.body.agentId,
                nonce |-> req.nonce, status |-> "pending",
                relayer_address |-> 0, dispute_reason |-> ""]
        res == InsertIntent(dbIntents, row)
    IN  /\ req.route = PostIntents /\ req.phase = "insert"
        /\ dbIntents' = res.rows
        /\ inflight' = [inflight EXCEPT ![k] = Idle]
        /\ Answer(PostIntents, req.intentId, IF res.ok THEN 201 ELSE 500,
                  [agentId |-> req.body.agentId, nonce |-> req.nonce])
        /\ UNCHANGED dbAgents
        /\ UNCHANGED <<now, ticks, peVars, regVars, exVars, auVars>>

\* POST /intents/:id/submit up to its await: 400 for a malformed id or a
\* relayer address that is none (0).
ReceiveSubmit(intentId, relayerAddress) ==
    /\ Received < MaxRequests
    /\ IF ~validateIntentId(intentId) \/ relayerAddress = 0
       THEN Answer(PostSubmit, intentId, 400, [relayer |-> relayerAddress])
            /\ UNCHANGED inflight
       ELSE Park(Request(PostSubmit, "update", 0, CreateBody(0, 0), intentId,
                         relayerAddress, ""))
    /\ UNCHANGED <<dbAgents, dbIntents>>
    /\ UNCHANGED <<now, ticks, peVars, regVars, exVars, auVars>>

\* POST /intents/:id/execute up to its await.
ReceiveExecute(intentId) ==
    /\ Received < MaxRequests
    /\ IF ~validateIntentId(intentId)
       THEN Answer(PostExecute, intentId, 400, [relayer |-> 0]) /\ UNCHANGED inflight
       ELSE Park(Request(PostExecute, "update", 0, CreateBody(0, 0), intentId, 0, ""))
    /\ UNCHANGED <<dbAgents, dbIntents>>
    /\ UNCHANGED <<now, ticks, peVars, regVars, exVars, auVars>>

\* POST /intents/:id/dispute up to its await: 400 for a malformed id or a
\* reason that is missing or blank.
ReceiveDispute(intentId, reason) ==
    /\ Received < MaxRequests
    /\ IF ~validateIntentId(intentId) \/ reason = "" \/ Trim(reason) = ""
       THEN Answer(PostDispute, intentId, 400, [reason |-> reason]) /\ UNCHANGED inflight
       ELSE Park(Request(PostDispute, "update", 0, CreateBody(0, 0), intentId, 0, reason))
    /\ UNCHANGED <<dbAgents, dbIntents>>
    /\ UNCHANGED <<now, ticks, peVars, regVars, exVars, auVars>>

\* The UPDATE of a submit, execute or dispute request answers: 404 when it
\* returned no row, 200 with the row it wrote.
RunUpdate(k) ==
    LET req == inflight[k]
        upd == IF req.route = PostSubmit
               THEN UpdateIntent(dbIntents, req.intentId, {"pending"},
                                 [status |-> "submitted", relayer_address |-> req.relayer])
               ELSE IF req.route = PostExecute
               THEN UpdateIntent(dbIntents, req.intentId, {"submitted"},
                                 [status |-> "executed"])
               ELSE UpdateIntent(dbIntents, req.intentId, {"submitted", "executed"},
                                 [status |-> "disputed", dispute_reason |-> req.reason])
    IN  /\ req.route \in {PostSubmit, PostExecute, PostDispute} /\ req.phase = "update"
        /\ dbIntents' = upd.rows
        /\ inflight' = [inflight EXCEPT ![k] = Idle]
        /\ Answer(req.route, req.intentId, IF upd.returned = {} THEN 404 ELSE 200,
                  [relayer |-> req.relayer, reason |-> req.reason])
        /\ UNCHANGED dbAgents
        /\ UNCHANGED <<now, ticks, peVars, regVars, exVars, auVars>>

\* User 1 owns the seeded agent; users 1 and 2 and a caller without a user
\* create intents, for this agent and for another, in any interleaving.
NextCreate ==
    \/ AssignAgent(1)
    \/ \E userId \in {0, 1, 2} : ReceiveCreate(userId, CreateBody(TestAgent, 1))
    \/ \E body \in {CreateBody(TestAgent, 0), CreateBody(2, 1)} : ReceiveCreate(1, body)
    \/ \E k \in Slots, ms \in Millis : CreateSelectAgent(k, ms)
    \/ \E k \in Slots : CreateCountNonce(k)
    \/ \E k \in Slots : CreateInsert(k)

SpecCreate == InitDeployed /\ [][NextCreate]_vars

\* User 1 creates an intent of the seeded agent; relayers 1 and 2 submit it,
\* and it is executed and disputed, in any interleaving.
StoredId == IntentIdOf(CreateBody(TestAgent, 1), 1)
OtherId == IntentIdOf(CreateBody(TestAgent, 1), 2)

NextStatus ==
    \/ AssignAgent(1)
    \/ ReceiveCreate(1, CreateBody(TestAgent, 1))
    \/ \E k \in Slots : CreateSelectAgent(k, 1)
    \/ \E k \in Slots : CreateCountNonce(k)
    \/ \E k \in Slots : CreateInsert(k)
    \/ \E relayerAddress \in {0, 1, 2} : ReceiveSubmit(StoredId, relayerAddress)
    \/ ReceiveSubmit(-1, 1)
    \/ \E intentId \in {StoredId, OtherId} : ReceiveExecute(intentId)
    \/ \E reason \in {" ", "fraud"} : ReceiveDispute(StoredId, reason)
    \/ \E k \in Slots : RunUpdate(k)

SpecStatus == InitDeployed /\ [][NextStatus]_vars

\* ------------------------------------------------------------------ claims
ErrHourly == "PolicyViolation: Exceeds maxTxPerHour"
ErrDaily == "PolicyViolation: Exceeds maxSpendPerDay"
ErrPerTx == "PolicyViolation: Exceeds maxValuePerTx"

\* C5: a policy check rejected for the hourly cap leaves the circuit breaker
\* tripped afterwards (so that the next attempt meets CircuitBreakerActive).
C5_HourlyViolationTripsBreaker ==
    (last.op = "checkPolicy" /\ last.err = ErrHourly) => circuitBreaker.tripped

\* The breaker's flag as every reachable state has it.
BreakerNeverTripped == ~circuitBreaker.tripped

\* C7: a rejected policy check leaves the checked agent's dailySpent,
\* hourlyTxCount and both window starts as they were before the call.
C7_RejectedCheckKeepsWindow ==
    [][(last'.op = "checkPolicy" /\ ~last'.ok)
        => rollingWindows'[last'.args.agentId] = rollingWindows[last'.args.agentId]]_vars

\* A check rejected for the daily cap at a time when the daily window was due
\* for its reset: the reset written before the revert is not kept.
C7_Witness ==
    /\ last.op = "checkPolicy"
    /\ last.err = ErrDaily
    /\ now >= rollingWindows[last.args.agentId].dailyWindowStart + DAY

\* C8 as stated: an approved check leaves dailySpent larger by the value and
\* hourlyTxCount larger by one than they were before the call.
C8_ApprovedAddsToPrevious ==
    [][(last'.op = "checkPolicy" /\ last'.ok)
        => LET a == last'.args.agentId
           IN  /\ rollingWindows'[a].dailySpent
                    = rollingWindows[a].dailySpent + last'.args.value
               /\ rollingWindows'[a].hourlyTxCount
                    = rollingWindows[a].hourlyTxCount + 1]_vars

\* C8 amended: a check is approved only if every gate passes, and it leaves
\* dailySpent larger by the value and hourlyTxCount larger by one than they
\* were after the reset of each window whose period had elapsed (0, with the
\* window start moved to now); no other agent's window changes.
C8_ApprovedAddsAfterReset ==
    [][(last'.op = "checkPolicy" /\ last'.ok)
        => LET a == last'.args.agentId
               v == last'.args.value
               p == last'.args.policy
               w == rollingWindows[a]
               dayOver == now >= w.dailyWindowStart + DAY
               hourOver == now >= w.hourlyWindowStart + HOUR
           IN  /\ ~paused /\ ~agentPaused[a]
               /\ ~(circuitBreaker.tripped
                    /\ now < circuitBreaker.trippedAt + circuitBreaker.cooldownPeriod)
               /\ v <= p.maxValuePerTx
               /\ rollingWindows'[a].dailySpent <= p.maxSpendPerDay
               /\ rollingWindows'[a].hourlyTxCount <= p.maxTxPerHour
               /\ \/ p.whitelistedAddresses = <<>>
                  \/ \E i \in DOMAIN p.whitelistedAddresses :
                        p.whitelistedAddresses[i] = last'.args.recipient
               /\ rollingWindows'[a].dailySpent
                    = (IF dayOver THEN 0 ELSE w.dailySpent) + v
               /\ rollingWindows'[a].hourlyTxCount
                    = (IF hourOver THEN 0 ELSE w.hourlyTxCount) + 1
               /\ rollingWindows'[a].dailyWindowStart
                    = (IF dayOver THEN now ELSE w.dailyWindowStart)
               /\ rollingWindows'[a].hourlyWindowStart
                    = (IF hourOver THEN now ELSE w.hourlyWindowStart)
               /\ \A b \in AgentIds \ {a} : rollingWindows'[b] = rollingWindows[b]]_vars

\* An approved check that reset the hourly window of an agent whose daily
\* window, opened by an earlier approved check, still runs.
C8_Witness ==
    /\ last.op = "checkPolicy"
    /\ last.ok
    /\ rollingWindows[last.args.agentId].hourlyWindowStart = now
    /\ rollingWindows[last.args.agentId].dailyWindowStart < now
    /\ \E b \in AgentIds \ {last.args.agentId} : rollingWindows[b].hourlyTxCount > 0

\* C9: a request whose value exceeds maxValuePerTx is never approved.
C9_OverPerTxCapNeverApproved ==
    (last.op = "checkPolicy" /\ last.args.value > last.args.policy.maxValuePerTx)
        => ~last.ok

\* A request over the per-transaction cap rejected although the agent's daily
\* and hourly windows would have room for it.
C9_Witness ==
    /\ last.op = "checkPolicy"
    /\ last.err = ErrPerTx
    /\ LET w == rollingWindows[last.args.agentId]
           p == last.args.policy
       IN  /\ now < w.dailyWindowStart + DAY
           /\ now < w.hourlyWindowStart + HOUR
           /\ w.dailySpent + last.args.value <= p.maxSpendPerDay
           /\ w.hourlyTxCount < p.maxTxPerHour

\* C1 as stated: each agent's successful emits carry the nonces 0, 1, 2, ...
\* in that order, and an emit whose nonce differs from the agent's current
\* nonce is rejected with InvalidNonce and leaves the nonce unchanged.
C1_WrongNonceIsInvalidNonce ==
    [][/\ \A a \in AgentIds :
            emitted'[a] = [i \in 1 .. agentNonces'[a] |-> i - 1]
       /\ (last'.op = "emitIntent" /\ last'.args.nonce # agentNonces[last'.args.agentId])
            => (last'.err = "InvalidNonce" /\ agentNonces' = agentNonces)]_vars

\* C1 amended: each agent's successful emits carry the nonces 0, 1, 2, ... in
\* that order, and an emit whose nonce differs from the agent's current nonce
\* is rejected and leaves every nonce unchanged; the rejection is InvalidNonce
\* unless the intent id already exists or the intent has expired, which are
\* checked first and reported as IntentAlreadyExists and IntentExpired.
C1_NoncesGapFree ==
    [][/\ \A a \in AgentIds :
            emitted'[a] = [i \in 1 .. agentNonces'[a] |-> i - 1]
       /\ (last'.op = "emitIntent" /\ last'.args.nonce # agentNonces[last'.args.agentId])
            => /\ ~last'.ok
               /\ last'.err \in {"InvalidNonce", "IntentAlreadyExists", "IntentExpired"}
               /\ (last'.err = "IntentAlreadyExists"
                     => intents[last'.args.intentId].intentId # 0)
               /\ agentNonces' = agentNonces
               /\ emitted' = emitted]_vars

\* Both agents have emitted, one of them twice, and an emit that replays a
\* nonce already used has just been rejected with InvalidNonce.
C1_Witness ==
    /\ last.op = "emitIntent"
    /\ last.err = "InvalidNonce"
    /\ last.args.nonce < agentNonces[last.args.agentId]
    /\ \A a \in AgentIds : agentNonces[a] > 0
    /\ \E a \in AgentIds : emitted[a] = <<0, 1>>

\* C2: once an emit carrying an intent id has stored its intent, every later
\* emit carrying that id is rejected (the contract's reason for it being
\* IntentAlreadyExists) and changes neither the stored intents nor any nonce.
C2_SecondEmitOfAnIdRejected ==
    [][(last'.op = "emitIntent" /\ intents[last'.args.intentId] # NoIntent)
        => /\ ~last'.ok
           /\ intents' = intents
           /\ agentNonces' = agentNonces]_vars

C10_EmitObeysStoredPolicy ==
    (last.op = "emitIntent" /\ last.ok)
        => LET i == intents[last.args.intentId]
               p == getPolicy(REG, i.agentId)
               w == rollingWindows[i.agentId]
           IN  /\ i.value <= p.maxValuePerTx
               /\ w.dailySpent <= p.maxSpendPerDay
               /\ w.hourlyTxCount <= p.maxTxPerHour
               /\ \/ p.whitelistedAddresses = <<>>
                  \/ \E k \in DOMAIN p.whitelistedAddresses :
                        p.whitelistedAddresses[k] = i.recipient

Stored(intentId) == intents[intentId] # NoIntent

\* No run stores an intent and authorizes a relayer: emitIntent needs the
\* registry contract at agentRegistry, authorizeRelayer needs a caller that is
\* agentRegistry, and the registry contract makes no call.
NeverIntentAndRelayer ==
    ~((\E i \in IntentIds : Stored(i)) /\ (\E r \in Addresses : authorizedRelayers[r]))

\* No intent ever leaves Pending by a submit (C11, C12, C13 are about intents
\* that did).
NeverSubmitted ==
    \A i \in IntentIds : intents[i].status \notin {Submitted, Executed, Failed}

\* C14: dispute succeeds only for a stored intent that is Submitted or Executed
\* and only with a non-empty reason, and then sets the status to Disputed; any
\* other dispute is rejected and changes nothing.
C14_DisputeOnlySubmittedOrExecuted ==
    [][last'.op = "disputeIntent"
        => LET id == last'.args.intentId
           IN  IF /\ Stored(id)
                  /\ intents[id].status \in {Submitted, Executed}
                  /\ last'.args.reason # ""
               THEN last'.ok /\ intents'[id].status = Disputed
               ELSE ~last'.ok /\ intents' = intents]_vars

\* The status changes the lifecycle allows.
AllowedStatusChanges ==
    {<<Pending, Submitted>>, <<Submitted, Executed>>, <<Submitted, Disputed>>,
     <<Submitted, Failed>>, <<Executed, Disputed>>}

\* C15: the only status changes an intent undergoes are Pending->Submitted,
\* Submitted->Executed, Submitted->Disputed, Submitted->Failed and
\* Executed->Disputed; a Disputed or Failed intent never changes status again.
C15_OnlyLifecycleTransitions ==
    [][\A i \in IntentIds :
        Stored(i) =>
            \/ intents'[i].status = intents[i].status
            \/ <<intents[i].status, intents'[i].status>> \in AllowedStatusChanges]_vars

\* C17: emitIntent accepts an intent only for a registered, active agent and
\* only with a 65-byte signature made over that intent by the wallet the
\* registry binds to the agent; an intent is stored only by such an emit, and
\* a rejected emit stores nothing.
C17_StoredIntentsAreAgentSigned ==
    /\ [](\A intent \in EmitInputs : \A signature \in Signatures(intent) :
            emitIntent(World, intent, signature, now).ok
                => /\ agents[intent.agentId].wallet # 0
                   /\ agents[intent.agentId].active
                   /\ signature.length = 65
                   /\ signature.digest = IntentDigest(intent)
                   /\ signature.signer = agents[intent.agentId].wallet)
    /\ [][/\ \A i \in IntentIds :
                intents'[i] # intents[i]
                    => /\ last'.op = "emitIntent" /\ last'.ok
                       /\ last'.args.intentId = i
                       /\ agents[intents'[i].agentId].wallet # 0
                       /\ agents[intents'[i].agentId].active
          /\ (last'.op = "emitIntent" /\ ~last'.ok) => intents' = intents]_vars

\* An emit for agent 1 rejected because the agent, which has emitted before,
\* is deactivated.
C17_Witness ==
    /\ last.op = "emitIntent"
    /\ last.err = "Agent not active"
    /\ last.args.agentId = 1
    /\ agents[1].wallet # 0
    /\ agentNonces[1] > 0

\* C18: no wallet is bound to two different registered agents, the all-zero
\* agent id included.
C18_WalletBoundToOneAgent ==
    \A a, b \in AgentIds :
        (a # b /\ agents[a].wallet # 0 /\ agents[b].wallet # 0)
            => agents[a].wallet # agents[b].wallet

\* C19: registerAgent for an agent id that is taken is rejected with
\* AgentAlreadyExists, whoever calls, and leaves the registry unchanged.
C19_TakenIdIsRejected ==
    [][(last'.op = "registerAgent" /\ agents[last'.args.agentId] # NoAgent)
        => /\ last'.err = "AgentAlreadyExists"
           /\ UNCHANGED regVars]_vars

\* A registration of a taken id, by an account that is not the agent's owner,
\* rejected while the agent is deactivated.
C19_Witness ==
    /\ last.op = "registerAgent"
    /\ last.err = "AgentAlreadyExists"
    /\ last.args.sender # agents[last.args.agentId].owner
    /\ ~agents[last.args.agentId].active

OwnerOps == {"updatePolicy", "updateMetadata", "deactivateAgent", "reactivateAgent"}

\* C20: updatePolicy, updateMetadata, deactivateAgent and reactivateAgent are
\* rejected with AgentNotFound for an unknown id and with UnauthorizedCaller
\* for a caller that is not the agent's owner, both without a change of the
\* registry, and succeed for the owner; a registered agent's policy, metadata
\* and active flag change only by such a call of its owner, and its owner
\* never changes.
C20_OnlyOwnerChangesAgent ==
    [][/\ last'.op \in OwnerOps
            => LET a == last'.args.agentId
               IN  IF agents[a].owner = 0
                   THEN last'.err = "AgentNotFound" /\ UNCHANGED regVars
                   ELSE IF last'.args.sender # agents[a].owner
                   THEN last'.err = "UnauthorizedCaller" /\ UNCHANGED regVars
                   ELSE last'.ok
       /\ \A a \in AgentIds :
            agents[a].owner # 0
                => /\ agents'[a].owner = agents[a].owner
                   /\ agents'[a].wallet = agents[a].wallet
                   /\ (policies'[a] # policies[a] \/ agents'[a] # agents[a])
                        => /\ last'.op \in OwnerOps
                           /\ last'.ok
                           /\ last'.args.agentId = a
                           /\ last'.args.sender = agents[a].owner]_vars

\* An owner operation tried by the agent's own wallet, which is not its
\* owner, and rejected.
C20_Witness ==
    /\ last.op \in OwnerOps
    /\ last.err = "UnauthorizedCaller"
    /\ last.args.sender = agents[last.args.agentId].wallet
    /\ policies[last.args.agentId] # StrictPolicy

\* --------------------------------------------------- the relayer directory
\* The number of entries of the active set that are the account a.
TimesActive(seq, a) == Cardinality({i \in 1 .. Len(seq) : seq[i] = a})

\* The accounts in the active set.
ActiveSet(seq) == {seq[i] : i \in 1 .. Len(seq)}

\* C21: registerRelayer succeeds only with a stake of at least 0.1 ether and
\* for a caller not registered at the time; on success the caller's record
\* has reputation 100, processed and success counts 0 and is active, and the
\* caller is in the active set exactly once.
C21_RegisterChecksAndInitialRecord ==
    [][(last'.op = "registerRelayer" /\ last'.ok) =>
        LET caller == last'.args.sender
        IN  /\ last'.args.stakeAmount >= MIN_STAKE
            /\ ~relayerInfo[caller].isActive
            /\ relayerInfo'[caller].reputationScore = 100
            /\ relayerInfo'[caller].intentsProcessed = 0
            /\ relayerInfo'[caller].successfulExecutions = 0
            /\ relayerInfo'[caller].isActive
            /\ TimesActive(activeRelayers', caller) = 1]_vars

\* Account 2 has registered again, with ether of an earlier registration
\* still in the executor, while account 1 is registered too.
C21_Witness ==
    /\ last.op = "registerRelayer" /\ last.ok /\ last.args.sender = 2
    /\ sent[2] > last.args.msgValue
    /\ activeRelayers = <<1, 2>>

\* C22: unregisterRelayer succeeds only for a relayer active at the time; it
\* takes exactly the caller out of the active set (the others stay), marks
\* the caller inactive and pays the caller back all the ether it sent with
\* its registration, so that the caller has no ether left in the executor.
C22_UnregisterReturnsAllStaked ==
    [][(last'.op = "unregisterRelayer" /\ last'.ok) =>
        LET caller == last'.args.sender
        IN  /\ relayerInfo[caller].isActive
            /\ ActiveSet(activeRelayers') = ActiveSet(activeRelayers) \ {caller}
            /\ Len(activeRelayers') = Len(activeRelayers) - 1
            /\ ~relayerInfo'[caller].isActive
            /\ sent'[caller] = 0]_vars

\* C23: the reputation of every relayer that has registered is at least 10
\* and at most 200.
C23_ReputationWithinRange ==
    \A r \in Accounts :
        relayerInfo[r].relayerAddress # 0 =>
            /\ relayerInfo[r].reputationScore >= MIN_REPUTATION
            /\ relayerInfo[r].reputationScore <= MAX_REPUTATION

\* The larger of two numbers.
Max(a, b) == IF a >= b THEN a ELSE b

\* C24: updateRelayerReputation adds 1 to the relayer's processed count and
\* sets its last-active time to now; on success it adds 1 to the success
\* count and 1 to the reputation unless that is 200 already; on failure the
\* reputation becomes max(10, old - 5); no other relayer's record changes.
C24_UpdateReputationEffect ==
    [][(last'.op = "updateRelayerReputation" /\ last'.ok) =>
        LET r == last'.args.relayer
            old == relayerInfo[r]
            new == relayerInfo'[r]
        IN  /\ new.intentsProcessed = old.intentsProcessed + 1
            /\ new.lastActive = now
            /\ last'.args.success =>
                /\ new.successfulExecutions = old.successfulExecutions + 1
                /\ new.reputationScore =
                     IF old.reputationScore >= MAX_REPUTATION
                     THEN old.reputationScore ELSE old.reputationScore + 1
            /\ ~last'.args.success =>
                /\ new.successfulExecutions = old.successfulExecutions
                /\ new.reputationScore = Max(MIN_REPUTATION, old.reputationScore - 5)
            /\ \A other \in Addresses \ {r} : relayerInfo'[other] = relayerInfo[other]]_vars

\* An account that relays: an authorized relayer or a registered one.
RelayingParty(a) == authorizedRelayers[a] \/ relayerInfo[a].relayerAddress # 0

\* C25: the reputation, processed count and success count of a relayer that
\* has registered change only in a call of updateRelayerReputation, and the
\* caller of that call is no relaying party.
C25_OnlyOrchestratorScores ==
    [][\A r \in Accounts :
        (/\ relayerInfo[r].relayerAddress # 0
         /\ <<relayerInfo'[r].reputationScore, relayerInfo'[r].intentsProcessed,
              relayerInfo'[r].successfulExecutions>>
            # <<relayerInfo[r].reputationScore, relayerInfo[r].intentsProcessed,
                relayerInfo[r].successfulExecutions>>)
        => /\ last'.op = "updateRelayerReputation"
           /\ ~RelayingParty(last'.args.sender)]_vars

\* The relayers whose active flag is set.
Active == {r \in Addresses : relayerInfo[r].isActive}

\* The score of relayer r: its reputation, plus 10 if it was last active less
\* than an hour ago, scaled by its success rate if that is below 80%.
Score(r) ==
    LET info == relayerInfo[r]
        bonus == IF now - info.lastActive < HOUR THEN 10 ELSE 0
        rate == IF info.intentsProcessed > 0
                THEN (info.successfulExecutions * 100) \div info.intentsProcessed
                ELSE 100
    IN  IF rate < 80 THEN ((info.reputationScore + bonus) * rate) \div 100
        ELSE info.reputationScore + bonus

\* The first entry of the active set with the highest score.
FirstHighest ==
    LET i == CHOOSE k \in 1 .. Len(activeRelayers) :
                /\ \A j \in 1 .. Len(activeRelayers) :
                       Score(activeRelayers[j]) <= Score(activeRelayers[k])
                /\ \A j \in 1 .. (k - 1) :
                       Score(activeRelayers[j]) < Score(activeRelayers[k])
    IN  activeRelayers[i]

\* C26: with a relayer active, selectRelayer returns the first relayer of the
\* active set that has the highest score, the same one whenever it is asked
\* in the same state, and it changes no state.
C26_SelectReturnsFirstHighest ==
    /\ [](Active # {} =>
            /\ selectRelayer(EX, 1, now).ok
            /\ selectRelayer(EX, 1, now).ret = FirstHighest
            /\ (last.op = "selectRelayer" =>
                    last.ok /\ last.args.selected = FirstHighest))
    /\ [][last'.op = "selectRelayer" => UNCHANGED stateVars]_vars

\* What holds of C26 in every run: a relayer that selectRelayer returns is
\* the first of the active set with the highest score.
SelectedIsFirstHighest ==
    selectRelayer(EX, 1, now).ok => selectRelayer(EX, 1, now).ret = FirstHighest

\* C27: selectRelayer is rejected only when no relayer is active; with a
\* relayer active, whatever its reputation and success rate, it returns one.
C27_SelectRejectedOnlyWithoutRelayers ==
    /\ Active # {} => selectRelayer(EX, 1, now).ok
    /\ (last.op = "selectRelayer" /\ ~last.ok) => Active = {}

\* C28: the active set holds exactly the relayers whose active flag is set,
\* each once, with a recorded stake of at least 0.1 ether, and a relayer
\* that selectRelayer returns is one of them.
C28_OnlyActiveStakedSelected ==
    /\ ActiveSet(activeRelayers) = Active
    /\ \A r \in Active :
        /\ TimesActive(activeRelayers, r) = 1
        /\ relayerInfo[r].stakeAmount >= MIN_STAKE
    /\ selectRelayer(EX, 1, now).ok => selectRelayer(EX, 1, now).ret \in Active
    /\ (last.op = "selectRelayer" /\ last.ok) => last.args.selected \in Active

\* Relayer 1 is selected while relayer 2, which has unregistered, has the
\* higher reputation on record.
C28_Witness ==
    /\ last.op = "selectRelayer" /\ last.ok /\ last.args.selected = 1
    /\ relayerInfo[2].relayerAddress = 2 /\ ~relayerInfo[2].isActive
    /\ relayerInfo[2].reputationScore > relayerInfo[1].reputationScore

\* C30: authorizeRelayer called by the deploying account succeeds and makes
\* the relayer authorized, revokeRelayer called by it succeeds and makes the
\* relayer unauthorized, and a relayer's authorization changes in no other
\* call.
C30_DeployerAuthorizesAndRevokes ==
    [][/\ (last'.op = "authorizeRelayer" /\ last'.args.sender = Deployer) =>
            last'.ok /\ authorizedRelayers'[last'.args.relayer]
       /\ (last'.op = "revokeRelayer" /\ last'.args.sender = Deployer) =>
            last'.ok /\ ~authorizedRelayers'[last'.args.relayer]
       /\ \A r \in Addresses :
            authorizedRelayers'[r] # authorizedRelayers[r] =>
                /\ last'.ok /\ last'.args.relayer = r
                /\ last'.op = IF authorizedRelayers'[r]
                              THEN "authorizeRelayer" ELSE "revokeRelayer"]_vars

\* ------------------------------------------------------------ the audit log
\* The audit trail of one agent: its entries, in the order logged.
AuditTrail(entries, agentId) ==
    SelectSeq(entries, LAMBDA e : e.agentId = agentId)

\* An entry of the log holds the commitment hash h.
Logged(h) == \E i \in 1 .. Len(auditEntries) : auditEntries[i].commitmentHash = h

\* C29: logCommitment by an agent with a hash that some entry holds, logged
\* by that agent or by another, is rejected with CommitmentAlreadyExists and
\* leaves the length of the log and the trail of every agent as they were.
C29_CommitmentAcceptedOnce ==
    [][(/\ last'.op = "logCommitment"
        /\ last'.args.agentId # 0
        /\ Logged(last'.args.commitmentHash)) =>
            /\ ~last'.ok /\ last'.err = "CommitmentAlreadyExists"
            /\ Len(auditEntries') = Len(auditEntries)
            /\ \A a \in {1, 2} :
                AuditTrail(auditEntries', a) = AuditTrail(auditEntries, a)]_vars

\* Agent 2 was refused a commitment that agent 1 had logged.
C29_Witness ==
    /\ last.op = "logCommitment" /\ last.err = "CommitmentAlreadyExists"
    /\ last.args.agentId = 2
    /\ \E i \in 1 .. Len(auditEntries) :
        /\ auditEntries[i].agentId = 1
        /\ auditEntries[i].commitmentHash = last.args.commitmentHash
    /\ AuditTrail(auditEntries, 2) = <<>>

\* ------------------------------------------------------ the rolling windows
\* The approved checks of agent a made from time s on and before s + period.
ApprovedWithin(a, s, period) ==
    {e \in BagToSet(policyChecked[a]) : e.at >= s /\ e.at < s + period}

\* How many checks a set of approvals stands for, and their total value.
CountOf(a, es) ==
    LET RECURSIVE count(_)
        count(S) == IF S = {} THEN 0
                    ELSE LET e == CHOOSE x \in S : TRUE
                         IN  CopiesIn(e, policyChecked[a]) + count(S \ {e})
    IN  count(es)

TotalOf(a, es) ==
    LET RECURSIVE total(_)
        total(S) == IF S = {} THEN 0
                    ELSE LET e == CHOOSE x \in S : TRUE
                         IN  e.value * CopiesIn(e, policyChecked[a]) + total(S \ {e})
    IN  total(es)

\* The times at which a check of agent a was approved.
ApprovedAt(a) == {e.at : e \in BagToSet(policyChecked[a])}

C35_CountersWithinLimits ==
    /\ [](\A a \in AgentIds :
            /\ rollingWindows[a].hourlyTxCount <= WindowLimits.maxTxPerHour
            /\ rollingWindows[a].dailySpent <= WindowLimits.maxSpendPerDay)
    /\ [][\A a \in AgentIds :
            /\ rollingWindows'[a].hourlyWindowStart >= rollingWindows[a].hourlyWindowStart
            /\ rollingWindows'[a].dailyWindowStart >= rollingWindows[a].dailyWindowStart]_vars

\* Agent 1 is at both caps in windows that were restarted after the first.
C35_Witness ==
    /\ rollingWindows[1].hourlyTxCount = WindowLimits.maxTxPerHour
    /\ rollingWindows[1].dailySpent = WindowLimits.maxSpendPerDay
    /\ rollingWindows[1].hourlyWindowStart > StartTime
    /\ rollingWindows[1].dailyWindowStart > StartTime

\* ------------------------------------------------------- a rate-limit bypass
\* C32: once a rate-limit bypass attempt has met its 5th rejection for the
\* hourly cap, the circuit breaker is tripped.
C32_BreakerTrippedAtFifthViolation ==
    (last.op = "rateLimitBypass" /\ last.args.violations >= 5)
        => circuitBreaker.tripped

\* ------------------------------------------------ driving an intent through
\* C31: every stored intent that is Pending is Executed at some later time,
\* the callers making every call they can.
C31_PendingLeadsToExecuted ==
    \A i \in IntentIds :
        (Stored(i) /\ intents[i].status = Pending) ~> (intents[i].status = Executed)

\* ------------------------------------------------- the order of emit checks
\* The intents and signatures an emit may be handed: either id, either agent,
\* expired or expiring now, within or over the per-transaction cap.
OrderInputs == IntentDatas(IntentIds, AgentIds, {now - 1, now}, {1, 2})

\* The rejection the fixed order of checks gives an emit in this state ("" for
\* none): id already stored, expired, nonce mismatch, invalid signature,
\* inactive agent, signer mismatch, policy rejection.
FirstFailingCheck(intent, signature) ==
    IF Stored(intent.intentId) THEN {"IntentAlreadyExists"}
    ELSE IF intent.expiry < now THEN {"IntentExpired"}
    ELSE IF intent.nonce # agentNonces[intent.agentId] THEN {"InvalidNonce"}
    ELSE IF signature.length # 65 \/ signature.signer = 0
    THEN {"Invalid signature length", "Invalid signature"}
    ELSE IF ~agents[intent.agentId].active THEN {"Agent not active"}
    ELSE IF signature.signer # agents[intent.agentId].wallet
            \/ signature.digest # IntentDigest(intent)
    THEN {"Invalid agent signature"}
    ELSE {checkPolicy(PE, intent.agentId, intent.value, intent.recipient,
                      EMIT_MAX_SPEND_PER_DAY, EMIT_MAX_TX_PER_HOUR,
                      EMIT_MAX_VALUE_PER_TX, <<>>, now).err}

\* C33: an emit is answered with the rejection of its first failing check in
\* the order: id already exists, expired (expiry < now), nonce mismatch,
\* invalid signature, inactive agent or signer mismatch, policy rejection.
C33_FirstFailingCheckReported ==
    \A intent \in OrderInputs : \A signature \in Signatures(intent) :
        emitIntent(World, intent, signature, now).err
            \in FirstFailingCheck(intent, signature)

\* What holds of C33 in every run: the order is kept for every intent id but
\* the zero id.
OrderKeptForNonZeroIds ==
    \A intent \in OrderInputs : \A signature \in Signatures(intent) :
        intent.intentId # 0 =>
            emitIntent(World, intent, signature, now).err
                \in FirstFailingCheck(intent, signature)

\* ------------------------------------------- who consumes an agent's capacity
\* The step adds to agent a's hourly count or daily spending: a counter is
\* larger than before, or its window was restarted and it is not zero.
CapacityConsumed(a) ==
    LET w == rollingWindows[a]
        v == rollingWindows'[a]
    IN  \/ v.hourlyTxCount > w.hourlyTxCount
        \/ v.dailySpent > w.dailySpent
        \/ v.hourlyWindowStart # w.hourlyWindowStart /\ v.hourlyTxCount > 0
        \/ v.dailyWindowStart # w.dailyWindowStart /\ v.dailySpent > 0

\* C39: an agent's daily spending and hourly count increase only in a step
\* that is a successful emit of that agent's own intent, so the approved
\* checks logged for an agent are never more than its emitted intents.
C39_CapacityConsumedOnlyByOwnEmit ==
    /\ [](\A a \in AgentIds : BagCardinality(policyChecked[a]) <= Len(emitted[a]))
    /\ [][\A a \in AgentIds :
            CapacityConsumed(a) =>
                /\ last'.op = "emitIntent"
                /\ last'.ok
                /\ last'.args.agentId = a]_vars

\* What holds of C39 in every run: a successful emit adds one to the hourly
\* count of the intent's agent or restarts its hourly window at one.
EmitConsumesOwnCapacity ==
    [][(last'.op = "emitIntent" /\ last'.ok) =>
            /\ CapacityConsumed(last'.args.agentId)
            /\ \A a \in AgentIds \ {last'.args.agentId} : ~CapacityConsumed(a)]_vars

\* ------------------------------------------------ the REST routes' statuses
UpdateRoutes == {PostSubmit, PostExecute, PostDispute}

\* The rows before and after the step that hold the same intent.
SameIntent(r, q) == r.intent_id = q.intent_id

\* The step moves row r to row q as the route just answered allows.
AllowedMove(r, q) ==
    /\ last'.args.code = 200
    /\ last'.args.intentId = r.intent_id
    /\ \/ last'.op = PostSubmit /\ r.status = "pending" /\ q.status = "submitted"
       \/ last'.op = PostExecute /\ r.status = "submitted" /\ q.status = "executed"
       \/ /\ last'.op = PostDispute
          /\ r.status \in {"submitted", "executed"} /\ q.status = "disputed"
          /\ last'.args.reason # ""

\* The answers of one kind given so far.
Answers(route, intentId, code) ==
    CopiesIn([route |-> route, intentId |-> intentId, code |-> code], answered)

\* C37: a stored intent's status changes only pending -> submitted by a
\* submit, submitted -> executed by an execute, and submitted or executed ->
\* disputed by a dispute with a non-empty reason; of the submits (and of the
\* executes) for one intent at most one is answered 200, and a request
\* answered 404 leaves every row as it was.
C37_StatusMovesAndSingleWinner ==
    /\ [](\A i \in PathIds : Answers(PostSubmit, i, 200) <= 1
                             /\ Answers(PostExecute, i, 200) <= 1)
    /\ [][/\ \A r \in dbIntents : \E q \in dbIntents' : SameIntent(r, q)
          /\ \A r \in dbIntents : \A q \in dbIntents' :
                (SameIntent(r, q) /\ q # r) => AllowedMove(r, q)
          /\ (last'.op \in UpdateRoutes /\ last'.args.code \in {400, 404})
                => dbIntents' = dbIntents
          /\ (last'.op \in UpdateRoutes /\ last'.args.code # 0 /\ inflight' # inflight)
                => last'.args.code \in {200, 404}]_vars

\* A submit was just answered 200 while another submit for the same intent,
\* received before that answer, still waits for its UPDATE.
C37_Witness ==
    /\ last.op = PostSubmit /\ last.args.code = 200
    /\ \E k \in Slots : /\ inflight[k].route = PostSubmit
                        /\ inflight[k].intentId = last.args.intentId
    /\ Answers(PostSubmit, last.args.intentId, 404) = 0

\* ------------------------------------------------- the REST routes' nonces
RowsOf(a) == {r \in dbIntents : r.agent_id = a}

\* C38: a POST /intents answered 201 stored its intent with the nonce equal to
\* the number of the agent's intents stored before it, so the nonces of an
\* agent's stored intents are different and are 0, 1, 2, ... without a gap.
C38_NoncesCountStoredIntents ==
    /\ [](\A a \in DOMAIN dbAgents :
            /\ {r.nonce : r \in RowsOf(a)} = 0 .. (Cardinality(RowsOf(a)) - 1)
            /\ \A r, q \in RowsOf(a) : r.nonce = q.nonce => r = q)
    /\ [][(last'.op = PostIntents /\ last'.args.code = 201) =>
            \E q \in dbIntents' \ dbIntents :
                /\ dbIntents' = dbIntents \cup {q}
                /\ q.intent_id = last'.args.intentId
                /\ q.agent_id = last'.args.agentId
                /\ q.nonce = CountIntents(dbIntents, q.agent_id)]_vars

\* Two intents of the agent are stored, and the insert just answered lost the
\* race for its nonce: it read the count before a competing insert and was
\* answered 500, its intent id being new.
C38_Witness ==
    /\ Cardinality(RowsOf(TestAgent)) = 2
    /\ last.op = PostIntents /\ last.args.code = 500
    /\ \A r \in dbIntents : r.intent_id # last.args.intentId
    /\ \E r \in RowsOf(TestAgent) : r.nonce = last.args.nonce
====
